---- MODULE Spec2Model ----
(***************************************************************************)
(* gover: extract the Go build version from ELF, PE and Mach-O binaries.   *)
(*                                                                         *)
(* The model follows the multi-format program (openBinary, the three       *)
(* Binary adapters, readString, findVariable, findVersion, main).          *)
(*                                                                         *)
(* Scaling.  TLC's integers are 32 bits wide, so a byte of section data    *)
(* ranges over 0..ByteBase-1 instead of 0..255.  The widths stay those of  *)
(* the program: a uint32 is 4 bytes (modulus ByteBase^4), a uint64 is 8    *)
(* bytes (modulus ByteBase^8), and every uint64 sum of the code is taken   *)
(* modulo Word64.  The four leading bytes of a file (its magic) keep their *)
(* real values, since the code only compares them with fixed signatures.   *)
(***************************************************************************)
EXTENDS Integers, Sequences, FiniteSets, TLC

ByteBase == 4
MaxArgs == 2
MaxEntries == 2

Word32 == ByteBase ^ 4
Word64 == ByteBase ^ 8

\* The half of the uint64 range whose values convert to a negative int64 / int.
MaxInt64 == (Word64 \div 2) - 1

----------------------------------------------------------------------------
(* encoding/binary, io.SectionReader                                       *)

RECURSIVE LittleEndian(_)
\* binary.LittleEndian.UintNN of a byte slice that holds exactly NN/8 bytes.
LittleEndian(b) ==
    IF Len(b) = 0 THEN 0 ELSE b[1] + ByteBase * LittleEndian(Tail(b))

\* binary.LittleEndian.Uint32(b): index out of range (a panic) unless len(b) >= 4.
Uint32(b) ==
    IF Len(b) < 4 THEN [panic |-> TRUE, val |-> 0]
    ELSE [panic |-> FALSE, val |-> LittleEndian(SubSeq(b, 1, 4))]

\* binary.LittleEndian.Uint64(b): index out of range (a panic) unless len(b) >= 8.
Uint64(b) ==
    IF Len(b) < 8 THEN [panic |-> TRUE, val |-> 0]
    ELSE [panic |-> FALSE, val |-> LittleEndian(SubSeq(b, 1, 8))]

\* b[k:]: slice bounds out of range (a panic) when k > len(b).
SliceFrom(b, k) ==
    IF k > Len(b) THEN [panic |-> TRUE, val |-> <<>>]
    ELSE [panic |-> FALSE, val |-> SubSeq(b, k + 1, Len(b))]

\* int64(x) of a uint64 x.
ToInt64(x) == IF x > MaxInt64 THEN x - Word64 ELSE x

\* s.ReadAt(b, off) with len(b) = n on a section whose reader spans s.Size
\* bytes: io.SectionReader.ReadAt.  A read that starts outside the section or
\* runs past its end ends with io.EOF.
SectionReadAt(s, n, off) ==
    IF off < 0 \/ off >= s.Size
    THEN [err |-> "EOF", bytes |-> <<>>, panic |-> ""]
    ELSE IF n > s.Size - off
         THEN [err |-> "EOF", bytes |-> SubSeq(s.Data, off + 1, s.Size), panic |-> ""]
         ELSE [err |-> "", bytes |-> SubSeq(s.Data, off + 1, off + n), panic |-> ""]

\* return 0, fmt.Errorf("addr not mapped")
NotMapped == [err |-> "addr not mapped", bytes |-> <<>>, panic |-> ""]
\* A call that does not return: the panic unwinds through it.
PanicRead(msg) == [err |-> "", bytes |-> <<>>, panic |-> msg]

----------------------------------------------------------------------------
(* The Binary adapters                                                     *)

RECURSIVE elfScan(_, _, _, _)
elfScan(sections, k, n, vaddr) ==
    IF k > Len(sections) THEN NotMapped
    ELSE LET s == sections[k] IN
         IF vaddr >= s.Addr /\ vaddr < (s.Addr + s.Size) % Word64
         THEN SectionReadAt(s, n, ToInt64((vaddr - s.Addr) % Word64))
         ELSE elfScan(sections, k + 1, n, vaddr)

RECURSIVE elfScanInclusive(_, _, _, _)
\* The scan with the end of a section taken as one of its addresses.
elfScanInclusive(sections, k, n, vaddr) ==
    IF k > Len(sections) THEN NotMapped
    ELSE LET s == sections[k] IN
         IF vaddr >= s.Addr /\ vaddr <= (s.Addr + s.Size) % Word64
         THEN SectionReadAt(s, n, ToInt64((vaddr - s.Addr) % Word64))
         ELSE elfScanInclusive(sections, k + 1, n, vaddr)

elfReadAtVaddrInclusive(e, n, vaddr) == elfScanInclusive(e.Sections, 1, n, vaddr)

\* (e *elfBinary) ReadAtVaddr(b, vaddr), len(b) = n.
elfReadAtVaddr(e, n, vaddr) == elfScan(e.Sections, 1, n, vaddr)

\* (e *elfBinary) PtrSize()
elfPtrSize(e) ==
    CASE e.Class = "ELFCLASS32" -> [panic |-> "", size |-> 4]
      [] e.Class = "ELFCLASS64" -> [panic |-> "", size |-> 8]
      [] OTHER -> [panic |-> "unknown elf class", size |-> 0]

\* (p *peBinary) imageBase()
imageBase(p) ==
    CASE p.OptionalHeader = "OptionalHeader32" -> [panic |-> "", base |-> p.ImageBase]
      [] p.OptionalHeader = "OptionalHeader64" -> [panic |-> "", base |-> p.ImageBase]
      [] OTHER -> [panic |-> "unknown pe format", base |-> 0]

RECURSIVE peScan(_, _, _, _, _)
\* A PE section's Addr field is its VirtualAddress.
peScan(sections, base, k, n, vaddr) ==
    IF k > Len(sections) THEN NotMapped
    ELSE LET s == sections[k]
             start == (base + s.Addr) % Word64
             end == (start + s.Size) % Word64
         IN  IF vaddr >= start /\ vaddr < end
             THEN SectionReadAt(s, n, ToInt64((vaddr - ((base + s.Addr) % Word64)) % Word64))
             ELSE peScan(sections, base, k + 1, n, vaddr)

\* (p *peBinary) ReadAtVaddr(b, vaddr), len(b) = n.
peReadAtVaddr(p, n, vaddr) ==
    LET ib == imageBase(p) IN
    IF ib.panic # "" THEN PanicRead(ib.panic)
    ELSE peScan(p.Sections, ib.base, 1, n, vaddr)

\* (p *peBinary) PtrSize()
pePtrSize(p) ==
    CASE p.OptionalHeader = "OptionalHeader32" -> [panic |-> "", size |-> 4]
      [] p.OptionalHeader = "OptionalHeader64" -> [panic |-> "", size |-> 8]
      [] OTHER -> [panic |-> "unknown pe format", size |-> 0]

RECURSIVE machoScan(_, _, _, _)
machoScan(sections, k, n, vaddr) ==
    IF k > Len(sections) THEN NotMapped
    ELSE LET s == sections[k] IN
         IF vaddr >= s.Addr /\ vaddr < (s.Addr + s.Size) % Word64
         THEN SectionReadAt(s, n, ToInt64((vaddr - s.Addr) % Word64))
         ELSE machoScan(sections, k + 1, n, vaddr)

\* (m *machoBinary) ReadAtVaddr(b, vaddr), len(b) = n.
machoReadAtVaddr(m, n, vaddr) == machoScan(m.Sections, 1, n, vaddr)

\* (m *machoBinary) PtrSize()
machoPtrSize(m) ==
    CASE m.Cpu \in {"Cpu386", "CpuArm", "CpuPpc"} -> [panic |-> "", size |-> 4]
      [] m.Cpu \in {"CpuAmd64", "CpuPpc64"} -> [panic |-> "", size |-> 8]
      [] OTHER -> [panic |-> "unknown macho cpu", size |-> 0]

\* Dispatch of the Binary interface on the adapter openBinary returned.
ReadAtVaddr(b, n, vaddr) ==
    CASE b.fmt = "elf" -> elfReadAtVaddr(b, n, vaddr)
      [] b.fmt = "pe" -> peReadAtVaddr(b, n, vaddr)
      [] OTHER -> machoReadAtVaddr(b, n, vaddr)

PtrSize(b) ==
    CASE b.fmt = "elf" -> elfPtrSize(b)
      [] b.fmt = "pe" -> pePtrSize(b)
      [] OTHER -> machoPtrSize(b)

----------------------------------------------------------------------------
(* readString                                                              *)

StrResult(ver, reads) ==
    [kind |-> "ok", ver |-> ver, err |-> "", typeName |-> "", reads |-> reads]
ErrResult(err, reads) ==
    [kind |-> "err", ver |-> <<>>, err |-> err, typeName |-> "", reads |-> reads]
PanicResult(msg, reads) ==
    [kind |-> "panic", ver |-> <<>>, err |-> msg, typeName |-> "", reads |-> reads]

\* One ReadAtVaddr call as readString made it: the address, the buffer length
\* and what came back.
ReadCall(vaddr, n, r) == [vaddr |-> vaddr, n |-> n, err |-> r.err, panic |-> r.panic]

\* The switch on b.PtrSize(): sptr and slen decoded from val.
decodeRecord(size, val) ==
    CASE size = 4 ->
           LET p == Uint32(val)
               t == SliceFrom(val, 4)
               l == Uint32(t.val)
           IN  [panic |-> p.panic \/ t.panic \/ l.panic, sptr |-> p.val, slen |-> l.val]
      [] size = 8 ->
           LET p == Uint64(val)
               t == SliceFrom(val, 8)
               l == Uint64(t.val)
           IN  [panic |-> p.panic \/ t.panic \/ l.panic, sptr |-> p.val, slen |-> l.val]
      [] OTHER -> [panic |-> FALSE, sptr |-> 0, slen |-> 0]

\* The second half of readString: val = make([]byte, slen), the read at sptr,
\* string(val).  make panics on a length that is negative as an int.
readData(b, sptr, slen, reads) ==
    IF slen > MaxInt64
    THEN PanicResult("makeslice: len out of range", reads)
    ELSE LET r == ReadAtVaddr(b, slen, sptr)
             rs == Append(reads, ReadCall(sptr, slen, r))
         IN  IF r.panic # "" THEN PanicResult(r.panic, rs)
             ELSE IF r.err # "" THEN ErrResult(r.err, rs)
             ELSE StrResult(r.bytes, rs)

\* readString after its type check: val = make([]byte, v.Type.Size()), the
\* read at v.Addr, the decoding and the second read.  make panics on a
\* negative size.
readRecord(b, v) ==
    IF v.Type.size < 0
    THEN PanicResult("makeslice: len out of range", <<>>)
    ELSE LET r == ReadAtVaddr(b, v.Type.size, v.Addr)
             rs == <<ReadCall(v.Addr, v.Type.size, r)>>
         IN  IF r.panic # "" THEN PanicResult(r.panic, rs)
             ELSE IF r.err # "" THEN ErrResult(r.err, rs)
             ELSE LET ps == PtrSize(b) IN
                  IF ps.panic # "" THEN PanicResult(ps.panic, rs)
                  ELSE LET d == decodeRecord(ps.size, r.bytes) IN
                       IF d.panic THEN PanicResult("index out of range", rs)
                       ELSE readData(b, d.sptr, d.slen, rs)

\* readString with the type check left out.
readStringUnchecked(b, v) == readRecord(b, v)

\* readString(b, v)
readString(b, v) ==
    IF v.Type.name # "struct string"
    THEN [ErrResult("wrong type", <<>>) EXCEPT !.typeName = v.Type.name]
    ELSE readRecord(b, v)

----------------------------------------------------------------------------
(* findVariable                                                            *)

NoType == [name |-> "", size |-> 0, err |-> ""]
VarResult(addr, typ) == [kind |-> "var", Addr |-> addr, Type |-> typ, err |-> ""]
NilResult == [kind |-> "nil", Addr |-> 0, Type |-> NoType, err |-> ""]
VarError(err) == [kind |-> "err", Addr |-> 0, Type |-> NoType, err |-> err]
VarPanic(msg) == [kind |-> "panic", Addr |-> 0, Type |-> NoType, err |-> msg]

RECURSIVE findVariableFrom(_, _, _)
\* The loop of findVariable from the k-th call of dr.Next() on.  d.entries is
\* what the reader yields before it ends, d.err the error it ends with ("" for
\* a plain end of stream).
findVariableFrom(d, name, k) ==
    IF k > Len(d.entries)
    THEN IF d.err # "" THEN VarError(d.err) ELSE NilResult
    ELSE LET e == d.entries[k] IN
         IF e.Tag # "TagVariable" THEN findVariableFrom(d, name, k + 1)
         ELSE IF ~e.hasName \/ e.name # name THEN findVariableFrom(d, name, k + 1)
         ELSE IF ~e.hasLoc THEN findVariableFrom(d, name, k + 1)
         ELSE IF Len(e.loc) = 0 THEN VarPanic("index out of range")
         ELSE IF e.loc[1] # 3 THEN VarError("can't determine variable addr")
         ELSE IF Len(e.loc) \notin {5, 9} THEN VarError("unknown addr size")
         ELSE IF ~e.hasType THEN findVariableFrom(d, name, k + 1)
         ELSE IF e.Type.err # "" THEN VarError(e.Type.err)
         ELSE VarResult(LittleEndian(SubSeq(e.loc, 2, Len(e.loc))), e.Type)

\* bs in reverse order.
Reverse(bs) == [k \in 1..Len(bs) |-> bs[Len(bs) + 1 - k]]

\* findVariable reading the stream from its end.
findVariableLast(d, name) ==
    findVariableFrom([d EXCEPT !.entries = Reverse(d.entries)], name, 1)

\* findVariable(d, name)
findVariable(d, name) == findVariableFrom(d, name, 1)

----------------------------------------------------------------------------
(* openBinary                                                              *)

\* bytes.HasPrefix
HasPrefix(s, prefix) ==
    Len(s) >= Len(prefix) /\ SubSeq(s, 1, Len(prefix)) = prefix

ElfMagic == <<127, 69, 76, 70>>
PeMagic == <<77, 90>>
MachoMagic == <<207, 250, 237, 254>>

NoBinary == [fmt |-> "none", Class |-> "", OptionalHeader |-> "", ImageBase |-> 0,
             Cpu |-> "", Sections |-> <<>>]
Adapter(fmt, file) ==
    [fmt |-> fmt, Class |-> file.Class, OptionalHeader |-> file.OptionalHeader,
     ImageBase |-> file.ImageBase, Cpu |-> file.Cpu, Sections |-> file.Sections]

\* openBinary(name).  opened: the handles the call leaves open; closer: the
\* handle the returned Binary's Close() closes ("" for none: an elf.File made
\* by elf.NewFile owns no handle).  A format parser (elf.NewFile, pe.Open,
\* macho.Open) accepts exactly the files of its own kind; pe.Open and
\* macho.Open open the file a second time and close that handle themselves
\* when they fail.
openBinary(file) ==
    IF ~file.exists
    THEN [err |-> "no such file", bin |-> NoBinary, opened |-> {}, closer |-> ""]
    ELSE IF Len(file.magic) < 4
    THEN [err |-> "EOF", bin |-> NoBinary, opened |-> {"os.Open"}, closer |-> ""]
    ELSE IF HasPrefix(file.magic, ElfMagic)
    THEN IF file.kind # "elf"
         THEN [err |-> "bad ELF file", bin |-> NoBinary, opened |-> {"os.Open"},
               closer |-> ""]
         ELSE [err |-> "", bin |-> Adapter("elf", file), opened |-> {"os.Open"},
               closer |-> ""]
    ELSE IF HasPrefix(file.magic, PeMagic)
    THEN IF file.kind # "pe"
         THEN [err |-> "bad PE file", bin |-> NoBinary, opened |-> {"os.Open"},
               closer |-> ""]
         ELSE [err |-> "", bin |-> Adapter("pe", file),
               opened |-> {"os.Open", "pe.Open"}, closer |-> "pe.Open"]
    ELSE IF HasPrefix(file.magic, MachoMagic)
    THEN IF file.kind # "macho"
         THEN [err |-> "bad Mach-O file", bin |-> NoBinary, opened |-> {"os.Open"},
               closer |-> ""]
         ELSE [err |-> "", bin |-> Adapter("macho", file),
               opened |-> {"os.Open", "macho.Open"}, closer |-> "macho.Open"]
    ELSE [err |-> "unsupported binary format", bin |-> NoBinary,
          opened |-> {"os.Open"}, closer |-> ""]

----------------------------------------------------------------------------
(* The files the program is run on                                         *)

VersionSymbol == "runtime.buildVersion"

\* v as w little-endian bytes.
Enc(v, w) == [k \in 1..w |-> (v \div (ByteBase ^ (k - 1))) % ByteBase]
\* n bytes, none of them zero.
Filler(n) == [k \in 1..n |-> 1 + (k % (ByteBase - 1))]
\* A (pointer, length) record of two w-byte words, filled up to 16 bytes.
Record(p, l, w) == Enc(p, w) \o Enc(l, w) \o Filler(16 - 2 * w)

StringData == <<1, 2, 3, 2>>
StringType(size) == [name |-> "struct string", size |-> size, err |-> ""]
IntType == [name |-> "int", size |-> 8, err |-> ""]
BadType == [name |-> "", size |-> 0, err |-> "dwarf: bad type offset"]

Entry(tag, hasName, name, hasLoc, loc, hasType, typ) ==
    [Tag |-> tag, hasName |-> hasName, name |-> name, hasLoc |-> hasLoc,
     loc |-> loc, hasType |-> hasType, Type |-> typ]
\* A variable entry of the version symbol at addr, its address w bytes wide.
VarEntry(addr, w, typ) ==
    Entry("TagVariable", TRUE, VersionSymbol, TRUE, <<3>> \o Enc(addr, w), TRUE, typ)

Stream(entries, err) == [entries |-> entries, err |-> err]

\* The pointer width a file's header stands for (0: none the code knows).
WidthOf(kind, arch) ==
    CASE arch \in {"ELFCLASS32", "OptionalHeader32", "Cpu386", "CpuArm", "CpuPpc"} -> 4
      [] arch \in {"ELFCLASS64", "OptionalHeader64", "CpuAmd64", "CpuPpc64"} -> 8
      [] OTHER -> 0

\* The header variants: kind, the field PtrSize switches on, the leading bytes.
\* elf.NewFile rejects every class but ELFCLASS32 and ELFCLASS64, so an ELF
\* image has one of the two; pe.NewFile leaves OptionalHeader nil when the
\* header's size is neither variant's; macho.NewFile keeps any Cpu value.  A
\* 32-bit Mach-O file starts with CE FA ED FE.
Archs ==
    { <<"elf", "ELFCLASS32", ElfMagic>>, <<"elf", "ELFCLASS64", ElfMagic>>,
      <<"pe", "OptionalHeader32", <<77, 90, 144, 0>> >>,
      <<"pe", "OptionalHeader64", <<77, 90, 144, 0>> >>,
      <<"pe", "nil", <<77, 90, 144, 0>> >>,
      <<"macho", "CpuAmd64", MachoMagic>>, <<"macho", "Cpu386", MachoMagic>>,
      <<"macho", "CpuArm64", MachoMagic>>,
      <<"macho", "Cpu386", <<206, 250, 237, 254>> >> }

\* The top of the address range an image's section headers can name.
Top(arch) == IF WidthOf("", arch) = 4 THEN Word32 ELSE Word64

\* Where the record section (32 bytes) and the data section (4 bytes) start.
Layouts(arch) ==
    { <<16, 64>>, <<16, Top(arch) - 4>>, <<Top(arch) - 32, 64>> }

PeBase(arch) == IF arch = "OptionalHeader32" THEN 8 ELSE Word64 - 64

\* An image file: two sections, the first holding two string records (the
\* first (p, l), the second fixed), the second the string bytes; its debug
\* data is the stream d.
Image(a, lay, p, l, d) ==
    LET kind == a[1]
        arch == a[2]
        w == IF WidthOf(kind, arch) = 4 THEN 4 ELSE 8
        m == ByteBase ^ w
        base == IF kind = "pe" THEN PeBase(arch) ELSE 0
        sec(addr, data) ==
            [Addr |-> (addr - base) % Word64, Size |-> Len(data), Data |-> data]
    IN  [exists |-> TRUE, magic |-> a[3], kind |-> kind,
         Class |-> IF kind = "elf" THEN arch ELSE "",
         OptionalHeader |-> IF kind = "pe" THEN arch ELSE "",
         ImageBase |-> base,
         Cpu |-> IF kind = "macho" THEN arch ELSE "",
         Sections |-> << sec(lay[1], Record(p % m, l % m, w)
                                     \o Record((lay[2] + 1) % m, 2, w)),
                         sec(lay[2], StringData) >>,
         dwarfErr |-> "", dwarf |-> d]

\* A file that is no image of its leading bytes' format (or of any format).
Plain(exists, magic) ==
    [exists |-> exists, magic |-> magic, kind |-> "other", Class |-> "",
     OptionalHeader |-> "", ImageBase |-> 0, Cpu |-> "", Sections |-> <<>>,
     dwarfErr |-> "", dwarf |-> Stream(<<>>, "")]

NoFile == Plain(FALSE, <<>>)

Magics ==
    { <<>>, <<127>>, <<77, 90>>, <<127, 69, 76>>, <<207, 250, 237>>,
      <<0, 0, 0, 0>>, <<254, 237, 250, 207>>, <<202, 254, 186, 190>>,
      <<90, 77, 0, 0>>, <<35, 33, 47, 98>>,
      ElfMagic, <<77, 90, 144, 0>>, <<77, 90, 0, 0>>, MachoMagic }

GoodStream(lay) == Stream(<<VarEntry(lay[1], 8, StringType(16))>>, "")

HeaderFiles ==
    {Plain(FALSE, <<>>)}
    \cup {Plain(TRUE, m) : m \in Magics}
    \cup {[Image(a, <<16, 64>>, 64, 3, Stream(<<>>, "")) EXCEPT !.dwarfErr = "missing section"]
            : a \in Archs}
    \cup {Image(a, <<16, 64>>, 64, 3, Stream(<<>>, "")) : a \in Archs}

\* The entries a stream is made of.
EntryAlphabet ==
    { VarEntry(16, 8, StringType(16)),
      VarEntry(32, 4, StringType(16)),
      VarEntry(32, 8, IntType),
      Entry("TagSubprogram", TRUE, VersionSymbol, TRUE, <<3>> \o Enc(32, 8), TRUE, StringType(16)),
      Entry("TagVariable", TRUE, "main.x", TRUE, <<3>> \o Enc(32, 8), TRUE, StringType(16)),
      Entry("TagVariable", FALSE, "", TRUE, <<3>> \o Enc(32, 8), TRUE, StringType(16)),
      Entry("TagVariable", TRUE, VersionSymbol, FALSE, <<>>, TRUE, StringType(16)),
      Entry("TagVariable", TRUE, VersionSymbol, TRUE, <<>>, TRUE, StringType(16)),
      Entry("TagVariable", TRUE, VersionSymbol, TRUE, <<2>> \o Enc(32, 4), TRUE, StringType(16)),
      Entry("TagVariable", TRUE, VersionSymbol, TRUE, <<3>>, TRUE, StringType(16)),
      Entry("TagVariable", TRUE, VersionSymbol, TRUE, <<3>> \o Enc(32, 2), TRUE, StringType(16)),
      Entry("TagVariable", TRUE, VersionSymbol, TRUE, <<0>> \o Enc(32, 1), TRUE, StringType(16)),
      Entry("TagVariable", TRUE, VersionSymbol, TRUE, <<3>> \o Enc(32, 8), FALSE, NoType),
      Entry("TagVariable", TRUE, VersionSymbol, TRUE, <<3>> \o Enc(32, 8), TRUE, BadType) }

Streams ==
    { Stream(es, err) :
        es \in UNION {[1..n -> EntryAlphabet] : n \in 0..MaxEntries},
        err \in {"", "dwarf: decoding error"} }

DwarfFiles ==
    {Image(<<"elf", "ELFCLASS64", ElfMagic>>, <<16, 64>>, 64, 3, d) : d \in Streams}

\* Where the variable's location expression points, for a record section at a.
VarAddrs(a) == {a, a + 16, a + 24, a + 32, 1}
\* The pointers and lengths a record holds, for a data section at a2.
Pointers(lay) == {lay[2], lay[2] + 2, lay[2] + 4, lay[1], 1}
Lengths(arch) == {0, 2, 4, 5, Top(arch) - 1}
TypeSizes == {0 - 1, 0, 4, 8, 12, 16, 20}

\* The stream of a file whose only entry is the version variable.
VarStream(addr, w, typ) == Stream(<<VarEntry(addr, w, typ)>>, "")
RecordType(a) == StringType(IF WidthOf(a[1], a[2]) = 4 THEN 8 ELSE 16)

\* Every record content, the variable at the first record.
RecordFiles(a, lay) ==
    { Image(a, lay, p, l, VarStream(lay[1], 8, RecordType(a)))
        : p \in Pointers(lay), l \in Lengths(a[2]) }
\* Every variable address, the record as the format writes it.
AddrFiles(a, lay) ==
    { Image(a, lay, lay[2], 2, VarStream(addr, 8, RecordType(a)))
        : addr \in VarAddrs(lay[1]) }
\* Every declared type and address width.
TypeFiles(a) ==
    { Image(a, <<16, 64>>, 64, 3, VarStream(16, w, typ))
        : w \in {4, 8},
          typ \in {StringType(n) : n \in TypeSizes} \cup {IntType, BadType} }

MemFiles ==
    UNION { TypeFiles(a) \cup
            UNION { RecordFiles(a, lay) \cup AddrFiles(a, lay) : lay \in Layouts(a[2]) }
            : a \in Archs }

Files == HeaderFiles \cup DwarfFiles \cup MemFiles

----------------------------------------------------------------------------
(* main and findVersion, step by step                                      *)

VARIABLES
    nargs,      \* len(os.Args) - 1
    pc,         \* where the program is
    i,          \* how many paths main has finished
    exit,       \* main's exit variable
    status,     \* the process's exit status (-1 while it runs)
    results,    \* per finished path: TRUE when findVersion returned no error
    handles,    \* the open file handles: <<path index, opener>>
    cur,        \* the file at the path being processed
    e,          \* findVersion's e: the Binary and the handle its Close closes
    v,          \* findVersion's v, err: what findVariable returned
    ret         \* what findVersion returns (or the panic that ends it)

vars == <<nargs, pc, i, exit, status, results, handles, cur, e, v, ret>>

NoE == [bin |-> NoBinary, closer |-> "", deferred |-> FALSE]
NoVar == [kind |-> "none", Addr |-> 0, Type |-> NoType, err |-> ""]
NoRet == [kind |-> "none", ver |-> <<>>, err |-> "", typeName |-> "", reads |-> <<>>]

Init ==
    /\ nargs \in 0..MaxArgs
    /\ pc = "main"
    /\ i = 0
    /\ exit = 0
    /\ status = 0 - 1
    /\ results = <<>>
    /\ handles = {}
    /\ cur = NoFile
    /\ e = NoE
    /\ v = NoVar
    /\ ret = NoRet

\* main: len(os.Args) < 2, the usage line and os.Exit(1).
Usage ==
    /\ pc = "main" /\ nargs < 1
    /\ status' = 1
    /\ pc' = "exited"
    /\ UNCHANGED <<nargs, i, exit, results, handles, cur, e, v, ret>>

\* main: exit := 0 and the loop is entered.
Begin ==
    /\ pc = "main" /\ nargs >= 1
    /\ exit' = 0
    /\ pc' = "loop"
    /\ UNCHANGED <<nargs, i, status, results, handles, cur, e, v, ret>>

\* main: the next path of os.Args[1:], and the call of findVersion on it.
NextPath ==
    /\ pc = "loop" /\ i < nargs
    /\ \E f \in Files : cur' = f
    /\ pc' = "open"
    /\ UNCHANGED <<nargs, i, exit, status, results, handles, e, v, ret>>

\* findVersion: e, err := openBinary(file); defer e.Close().
Open ==
    /\ pc = "open"
    /\ LET o == openBinary(cur) IN
       /\ handles' = handles \cup {<<i + 1, h>> : h \in o.opened}
       /\ IF o.err # ""
          THEN /\ ret' = ErrResult(o.err, <<>>)
               /\ pc' = "return"
               /\ e' = e
          ELSE /\ e' = [bin |-> o.bin, closer |-> o.closer, deferred |-> TRUE]
               /\ pc' = "dwarf"
               /\ ret' = ret
    /\ UNCHANGED <<nargs, i, exit, status, results, cur, v>>

\* findVersion: d, err := e.DWARF().
Dwarf ==
    /\ pc = "dwarf"
    /\ IF cur.dwarfErr # ""
       THEN ret' = ErrResult(cur.dwarfErr, <<>>) /\ pc' = "return"
       ELSE ret' = ret /\ pc' = "findvar"
    /\ UNCHANGED <<nargs, i, exit, status, results, handles, cur, e, v>>

\* findVersion: v, err := findVariable(d, "runtime.buildVersion").
FindVar ==
    /\ pc = "findvar"
    /\ v' = findVariable(cur.dwarf, VersionSymbol)
    /\ CASE v'.kind = "var" -> ret' = ret /\ pc' = "readstr"
         [] v'.kind = "nil" ->
              ret' = ErrResult("can't find version symbol", <<>>) /\ pc' = "return"
         [] v'.kind = "err" -> ret' = ErrResult(v'.err, <<>>) /\ pc' = "return"
         [] OTHER -> ret' = PanicResult(v'.err, <<>>) /\ pc' = "return"
    /\ UNCHANGED <<nargs, i, exit, status, results, handles, cur, e>>

\* findVersion: return readString(e, v).
ReadStr ==
    /\ pc = "readstr"
    /\ ret' = readString(e.bin, v)
    /\ pc' = "return"
    /\ UNCHANGED <<nargs, i, exit, status, results, handles, cur, e, v>>

\* The handles still open once the deferred e.Close() has run.
afterClose(h, path, b) ==
    IF b.deferred /\ b.closer # "" THEN h \ {<<path, b.closer>>} ELSE h

\* findVersion returns: the deferred e.Close() runs; back in main the error is
\* reported and exit set to 1, or the version printed.  A panic runs the
\* deferred call too and then ends the process with status 2.
Return ==
    /\ pc = "return"
    /\ handles' = afterClose(handles, i + 1, e)
    /\ IF ret.kind = "panic"
       THEN /\ status' = 2
            /\ pc' = "exited"
            /\ UNCHANGED <<i, exit, results>>
       ELSE /\ exit' = IF ret.kind = "err" THEN 1 ELSE exit
            /\ results' = Append(results, ret.kind = "ok")
            /\ i' = i + 1
            /\ pc' = "loop"
            /\ status' = status
    /\ cur' = NoFile /\ e' = NoE /\ v' = NoVar /\ ret' = NoRet
    /\ UNCHANGED nargs

\* main: os.Exit(exit) after the loop.
Exit ==
    /\ pc = "loop" /\ i = nargs
    /\ status' = exit
    /\ pc' = "exited"
    /\ UNCHANGED <<nargs, i, exit, results, handles, cur, e, v, ret>>

Next == Usage \/ Begin \/ NextPath \/ Open \/ Dwarf \/ FindVar \/ ReadStr \/ Return \/ Exit

Spec == Init /\ [][Next]_vars

----------------------------------------------------------------------------
(* Properties                                                              *)

\* findVersion has returned (or panicked) and main has not yet moved on.
Returning == pc = "return"
\* findVersion got past openBinary.
Opened == e.deferred

\* The start of section s in b's address space, as a 64-bit address.
RegionStart(b, s) ==
    IF b.fmt = "pe" THEN (b.ImageBase + s.Addr) % Word64 ELSE s.Addr
\* start <= a < start+size, the sum taken in the integers.
InRegion(b, s, a) == RegionStart(b, s) <= a /\ a < RegionStart(b, s) + s.Size
Mapped(b, a) == \E k \in DOMAIN b.Sections : InRegion(b, b.Sections[k], a)
\* A PE image without an optional header has no image base, hence no regions.
HasAddressSpace(b) ==
    b.fmt = "pe" => b.OptionalHeader \in {"OptionalHeader32", "OptionalHeader64"}

\* The leading bytes match none of the three signatures.
NoSignature(magic) ==
    /\ ~HasPrefix(magic, ElfMagic)
    /\ ~HasPrefix(magic, PeMagic)
    /\ ~HasPrefix(magic, MachoMagic)

\* findVariable has returned (or panicked) for the current path.
Looked == pc \in {"readstr", "return"} /\ v.kind # "none"

RECURSIVE Value(_)
\* The number a little-endian byte sequence writes, from its last byte down.
Value(bs) ==
    IF bs = <<>> THEN 0
    ELSE bs[Len(bs)] * (ByteBase ^ (Len(bs) - 1)) + Value(SubSeq(bs, 1, Len(bs) - 1))

\* The least index of seq whose element satisfies P (0 when none does).
First(seq, P(_)) ==
    IF \E k \in DOMAIN seq : P(seq[k])
    THEN CHOOSE k \in DOMAIN seq : P(seq[k]) /\ \A j \in 1..(k - 1) : ~P(seq[j])
    ELSE 0

\* A variable declaration of the searched name.
Matches(en) == en.Tag = "TagVariable" /\ en.hasName /\ en.name = VersionSymbol
\* Opcode 3 followed by exactly 4 or exactly 8 bytes.
WellFormedLoc(loc) == Len(loc) \in {5, 9} /\ loc[1] = 3

\* The byte at address a of b's address space.
MemByte(b, a) ==
    LET k == CHOOSE k \in DOMAIN b.Sections : InRegion(b, b.Sections[k], a)
    IN  b.Sections[k].Data[a - RegionStart(b, b.Sections[k]) + 1]
\* The n bytes at a lie in one mapped region.
Readable(b, a, n) ==
    \E k \in DOMAIN b.Sections :
        /\ InRegion(b, b.Sections[k], a)
        /\ a + n <= RegionStart(b, b.Sections[k]) + b.Sections[k].Size
MemBytes(b, a, n) == [j \in 1..n |-> MemByte(b, a + j - 1)]

\* The image a file is, whatever its leading bytes.
ImageOf(file) == Adapter(file.kind, file)
FileWidth(file) ==
    WidthOf(file.kind, CASE file.kind = "elf" -> file.Class
                         [] file.kind = "pe" -> file.OptionalHeader
                         [] OTHER -> file.Cpu)

\* The file is a well-formed Go binary in the sense of C1: an ELF, PE or
\* Mach-O image of pointer width 4 or 8 whose debug data declares the version
\* variable with type string (two pointers wide) at a fixed address A, the
\* record at A readable, and the bytes it points to readable.
WellFormedBinary(file) ==
    LET w == FileWidth(file)
        b == ImageOf(file)
        k == First(file.dwarf.entries, Matches)
    IN  /\ file.exists /\ file.kind \in {"elf", "pe", "macho"} /\ w \in {4, 8}
        /\ file.dwarfErr = "" /\ k > 0
        /\ LET en == file.dwarf.entries[k] IN
           /\ en.hasLoc /\ WellFormedLoc(en.loc)
           /\ en.hasType /\ en.Type.err = ""
           /\ en.Type.name = "struct string" /\ en.Type.size = 2 * w
           /\ LET A == Value(Tail(en.loc)) IN
              /\ Readable(b, A, 2 * w)
              /\ Readable(b, Value(MemBytes(b, A, w)), Value(MemBytes(b, A + w, w)))

\* The string the record of a well-formed binary denotes.
VersionOf(file) ==
    LET w == FileWidth(file)
        b == ImageOf(file)
        A == Value(Tail(file.dwarf.entries[First(file.dwarf.entries, Matches)].loc))
    IN  MemBytes(b, Value(MemBytes(b, A, w)), Value(MemBytes(b, A + w, w)))

\* C1 (as claimed): on a well-formed binary findVersion returns exactly the
\* bytes the version variable's record points to, and no error.
C1_ReturnsVersion ==
    (Returning /\ WellFormedBinary(cur)) => (ret.kind = "ok" /\ ret.ver = VersionOf(cur))

\* A section whose start+size passes the last 64-bit address.
ReachesTop(b) ==
    \E k \in DOMAIN b.Sections :
        RegionStart(b, b.Sections[k]) + b.Sections[k].Size >= Word64

\* What is left of C1 in the code: it holds of the files whose leading bytes
\* are one of the three signatures and none of whose sections ends at the top
\* of the address range.
C1_ElsewhereHolds ==
    (Returning /\ WellFormedBinary(cur) /\ ~NoSignature(cur.magic)
       /\ ~ReachesTop(ImageOf(cur))) =>
        (ret.kind = "ok" /\ ret.ver = VersionOf(cur))

\* The addresses C2 is tried on: around both ends of every section, and the
\* ends of the address range.
ProbeAddrs(b) ==
    {0, 1, Word64 - 1} \cup
    UNION { { (RegionStart(b, b.Sections[k]) + d) % Word64 :
                d \in {0 - 1, 0, b.Sections[k].Size - 1, b.Sections[k].Size} }
            : k \in DOMAIN b.Sections }
ProbeLens == {0, 1, 4}

C3_NoHandleLeftOpen == pc = "loop" => handles = {}

\* The paths findVersion has been called on once the process has exited: a
\* panic (status 2) ends the process inside the call for path i+1.
Started == IF status = 2 THEN i + 1 ELSE i

\* C4 (as claimed): a run on one or more paths calls findVersion on every
\* path, and exits with status zero exactly when every call succeeded.
C4_EveryPathProcessed ==
    (pc = "exited" /\ nargs >= 1) =>
        /\ Started = nargs
        /\ (status = 0) <=> (Len(results) = nargs /\ \A k \in DOMAIN results : results[k])

\* C5: readString on a variable whose type name is not "struct string"
\* returns the wrong-type error with that name, and has made no ReadAtVaddr
\* call (so decoded nothing).
C5_WrongTypeNoRead ==
    (Returning /\ v.kind = "var" /\ v.Type.name # "struct string") =>
        /\ ret.kind = "err" /\ ret.err = "wrong type"
        /\ ret.typeName = v.Type.name
        /\ ret.reads = <<>>

C5_Witness ==
    /\ Returning /\ v.kind = "var" /\ v.Type.name = "int"
    /\ ret.err = "wrong type" /\ ret.typeName = "int"
    /\ Mapped(e.bin, v.Addr)

\* A declaration of the searched name that carries a location expression.
Located(en) == Matches(en) /\ en.hasLoc

\* The error values C6 allows for a location expression that is not well
\* formed.
LocErrors(loc) ==
    (IF Len(loc) = 0 \/ loc[1] # 3 THEN {"can't determine variable addr"} ELSE {})
    \cup (IF Len(loc) \notin {5, 9} THEN {"unknown addr size"} ELSE {})

\* C6 (as claimed): findVariable yields an address only from a location
\* expression that is opcode 3 plus 4 or 8 bytes, the address being their
\* little-endian value; when the first located declaration of the name has
\* any other expression, of any length, it returns the matching error value.
C6_LocationDecoded ==
    LET es == cur.dwarf.entries
        k == First(es, Located)
    IN  (Looked /\ k > 0) =>
            /\ ~WellFormedLoc(es[k].loc) =>
                   (v.kind = "err" /\ v.err \in LocErrors(es[k].loc))
            /\ v.kind = "var" =>
                   \E j \in DOMAIN es :
                       /\ Located(es[j]) /\ WellFormedLoc(es[j].loc)
                       /\ v.Addr = Value(Tail(es[j].loc))

\* What an entry that decides the lookup makes of it.
OutcomeOf(en) ==
    IF Len(en.loc) = 0 THEN VarPanic("index out of range")
    ELSE IF en.loc[1] # 3 THEN VarError("can't determine variable addr")
    ELSE IF Len(en.loc) \notin {5, 9} THEN VarError("unknown addr size")
    ELSE IF en.Type.err # "" THEN VarError(en.Type.err)
    ELSE VarResult(Value(Tail(en.loc)), en.Type)

\* C7 (as claimed): what findVariable returns comes from the first variable
\* declaration of the name, never from a later one; with no such entry in a
\* stream that ends, it returns not-found.
C7_FirstMatchDecides ==
    LET es == cur.dwarf.entries
        k == First(es, Matches)
    IN  (Looked /\ v.kind \in {"var", "err", "nil"}) =>
            /\ (k = 0 /\ cur.dwarf.err = "") => v.kind = "nil"
            /\ k > 0 =>
                 /\ v.kind # "nil"
                 /\ v.kind = "var" =>
                        (es[k].hasLoc /\ es[k].hasType /\ v = OutcomeOf(es[k]))
                 /\ v.kind = "err" =>
                        (es[k].hasLoc /\ v = OutcomeOf(es[k]))

\* An entry findVariable does not pass over: a declaration of the name with
\* a location expression that is malformed, or well formed and accompanied
\* by a type reference.
Decides(en) == Located(en) /\ (~WellFormedLoc(en.loc) \/ en.hasType)

\* C7 (amended): the result comes from the first deciding entry (its address
\* and type, its error, or the panic on its empty location expression), never
\* from a later one; with no deciding entry findVariable returns the reader's
\* error if the stream ended with one and not-found otherwise, and findVersion
\* reports not-found as "can't find version symbol".
C7_FirstDecidingEntry ==
    LET es == cur.dwarf.entries
        k == First(es, Decides)
    IN  Looked =>
            /\ k = 0 => v = (IF cur.dwarf.err # "" THEN VarError(cur.dwarf.err)
                                                   ELSE NilResult)
            /\ k > 0 => v = OutcomeOf(es[k])
            /\ (v.kind = "nil" /\ Returning) =>
                   (ret.kind = "err" /\ ret.err = "can't find version symbol")

\* A declaration of the name without a location was passed over, and the
\* address came from a later declaration of the same name.
C7_Witness ==
    LET es == cur.dwarf.entries IN
    /\ Looked /\ v.kind = "var" /\ Len(es) = 2
    /\ Matches(es[1]) /\ ~es[1].hasLoc
    /\ Decides(es[2]) /\ v.Addr = Value(Tail(es[2].loc))

\* C8 (as claimed): an existing file whose leading bytes match no signature,
\* files shorter than four bytes included, fails with "unsupported binary
\* format"; a file that is opened is opened as the format of its signature.
C8_FormatFromMagic ==
    (Returning /\ cur.exists) =>
        /\ (NoSignature(cur.magic) =>
               ~Opened /\ ret.kind = "err" /\ ret.err = "unsupported binary format")
        /\ (Opened =>
               e.bin.fmt = CASE HasPrefix(cur.magic, ElfMagic) -> "elf"
                             [] HasPrefix(cur.magic, PeMagic) -> "pe"
                             [] HasPrefix(cur.magic, MachoMagic) -> "macho"
                             [] OTHER -> "none")

UnknownWidthMessages == {"unknown elf class", "unknown pe format", "unknown macho cpu"}

\* C9 (as claimed): an extraction that ends because the pointer width is
\* unknown ends with an error value returned by findVersion.
C9_UnknownWidthIsError ==
    (Returning /\ Opened /\ ret.err \in UnknownWidthMessages) => ret.kind = "err"

\* C10 (as claimed, in its first case): on a string-typed variable whose
\* declared size is smaller than two pointer widths of the image, readString
\* ends with a string or with an error value.
C10_StringOrError ==
    (Returning /\ v.kind = "var" /\ v.Type.name = "struct string"
       /\ PtrSize(e.bin).panic = "" /\ HasAddressSpace(e.bin)
       /\ v.Type.size >= 0 /\ v.Type.size < 2 * PtrSize(e.bin).size) =>
        ret.kind \in {"ok", "err"}

====
